---- MODULE Spec2Model ----
(***************************************************************************)
(* Model of RDMGithubRelease.publish / process_release                     *)
(* (invenio_rdm_records/services/github/release.py).                       *)
(*                                                                         *)
(* The database is split in its durable (committed) part and, per worker   *)
(* process, the pending part held by that worker's db.session.  The        *)
(* UnitOfWork of publish() is built on that same db.session, so            *)
(* uow.commit() and db.session.commit() both flush the whole pending part. *)
(* Every call of publish() to a collaborator is one step and may raise.    *)
(***************************************************************************)
EXTENDS Integers, Sequences, FiniteSets, TLC

\* ---- bounds ----
NumReleases == 2
NumProcs == 2
MaxAttempts == 3
MaxReads == 2
MaxDeleted == 1

Releases == 1..NumReleases
Procs == 1..NumProcs

\* ---- ReleaseStatus (invenio_github.models) ----
RECEIVED == "RECEIVED"
PROCESSING == "PROCESSING"
PUBLISHED == "PUBLISHED"
FAILED == "FAILED"

NoStatus == "none"
NoRecordId == 0
NoChange == -1
NoDraft == [id |-> 0]
NoError == <<"none">>
NoStart == [status |-> <<>>, record_id |-> <<>>, records |-> {}]

VARIABLES
    dStatus,      \* durable Release.status of every release
    dRecordId,    \* durable Release.record_id of every release (0 = None)
    dRecords,     \* durable drafts/records of the records service
    pc,           \* position of each worker inside process_release/publish
    rel,          \* the release a worker is processing
    pStatus,      \* pending (uncommitted) release_object.status in the session
    pRecordId,    \* pending (uncommitted) release_object.record_id
    pDraft,       \* pending (uncommitted) draft/record enrolled in the uow
    branch,       \* which arm of "if self.is_first_release()" was taken
    recid,        \* local recid of the latest published record (line 105)
    stream,       \* file_stream of fetch_zipball_file: "closed" or "open"
    record,       \* local record returned by the publish call (line 124)
    ex,           \* exception in flight
    calls,        \* collaborator calls made by the current attempt, in order
    failedAt,     \* history: the step that raised in the current attempt
    outcome,      \* history: how the attempt that ended last ended
    start,        \* history: durable state when the attempt started
    attempts,     \* history: number of attempts started so far
    relinked,     \* history: releases processed again with record_id set
    deleted,      \* ids of the records the records service has deleted
    reads,        \* number of resolve_record / record_url calls made so far
    answer        \* what the last resolve_record / record_url call returned

durable == <<dStatus, dRecordId, dRecords>>
session == <<pStatus, pRecordId, pDraft>>
locals == <<branch, recid, stream, record>>
history == <<failedAt, outcome, start, attempts, relinked>>
readers == <<deleted, reads, answer>>
vars == <<dStatus, dRecordId, dRecords, pc, rel, pStatus, pRecordId, pDraft,
          branch, recid, stream, record, ex, calls, failedAt, outcome, start,
          attempts, relinked, deleted, reads, answer>>

\* self.release_file_name: one archive name per release
release_file_name(r) == <<"zipball", r>>

\* the error a collaborator raises at a given step
ErrorOf(step) == <<"Error", step>>

Init ==
    /\ dStatus = [r \in Releases |-> RECEIVED]
    /\ dRecordId = [r \in Releases |-> NoRecordId]
    /\ dRecords = {}
    /\ pc = [p \in Procs |-> "idle"]
    /\ rel = [p \in Procs |-> 1]
    /\ pStatus = [p \in Procs |-> NoStatus]
    /\ pRecordId = [p \in Procs |-> NoChange]
    /\ pDraft = [p \in Procs |-> NoDraft]
    /\ branch = [p \in Procs |-> "none"]
    /\ recid = [p \in Procs |-> NoRecordId]
    /\ stream = [p \in Procs |-> "closed"]
    /\ record = [p \in Procs |-> NoRecordId]
    /\ ex = [p \in Procs |-> NoError]
    /\ calls = [p \in Procs |-> <<>>]
    /\ failedAt = [p \in Procs |-> "none"]
    /\ outcome = [kind |-> "none"]
    /\ start = [p \in Procs |-> NoStart]
    /\ attempts = 0
    /\ relinked = {}
    /\ deleted = {}
    /\ reads = 0
    /\ answer = [op |-> "none"]

\* ---- the database session ----

\* what queries through worker p's session see: committed rows overlaid
\* with the worker's own pending changes
ViewStatus(p) ==
    [r \in Releases |->
        IF r = rel[p] /\ pStatus[p] # NoStatus THEN pStatus[p] ELSE dStatus[r]]

ViewRecordId(p) ==
    [r \in Releases |->
        IF r = rel[p] /\ pRecordId[p] # NoChange THEN pRecordId[p]
        ELSE dRecordId[r]]

ViewRecords(p) ==
    dRecords \cup (IF pDraft[p] # NoDraft THEN {pDraft[p]} ELSE {})

\* SessionCommit that writes the pending status to every release of the
\* repository
SessionCommit_AllReleases(p) ==
    /\ dStatus' = [r \in Releases |->
                      IF pStatus[p] # NoStatus THEN pStatus[p] ELSE dStatus[r]]
    /\ dRecordId' = ViewRecordId(p)
    /\ dRecords' = ViewRecords(p)
    /\ pStatus' = [pStatus EXCEPT ![p] = NoStatus]
    /\ pRecordId' = [pRecordId EXCEPT ![p] = NoChange]
    /\ pDraft' = [pDraft EXCEPT ![p] = NoDraft]

\* db.session.commit(): everything pending in the session becomes durable
SessionCommit(p) ==
    /\ dStatus' = ViewStatus(p)
    /\ dRecordId' = ViewRecordId(p)
    /\ dRecords' = ViewRecords(p)
    /\ pStatus' = [pStatus EXCEPT ![p] = NoStatus]
    /\ pRecordId' = [pRecordId EXCEPT ![p] = NoChange]
    /\ pDraft' = [pDraft EXCEPT ![p] = NoDraft]

\* db.session.rollback(): everything pending in the session is discarded
SessionRollback(p) ==
    /\ pStatus' = [pStatus EXCEPT ![p] = NoStatus]
    /\ pRecordId' = [pRecordId EXCEPT ![p] = NoChange]
    /\ pDraft' = [pDraft EXCEPT ![p] = NoDraft]
    /\ UNCHANGED durable

\* ---- helpers of the steps ----

Goto(p, label) == pc' = [pc EXCEPT ![p] = label]

Called(p, name) == calls' = [calls EXCEPT ![p] = Append(@, name)]

\* a step inside "with UnitOfWork(db.session) as uow" raises
Raises(p) ==
    /\ ex' = [ex EXCEPT ![p] = ErrorOf(pc[p])]
    /\ failedAt' = [failedAt EXCEPT ![p] = pc[p]]
    /\ Goto(p, "uow_exit")

\* the attempt of worker p is over: its locals and its history go away
Ends(p) ==
    /\ ex' = [ex EXCEPT ![p] = NoError]
    /\ branch' = [branch EXCEPT ![p] = "none"]
    /\ recid' = [recid EXCEPT ![p] = NoRecordId]
    /\ record' = [record EXCEPT ![p] = NoRecordId]
    /\ stream' = [stream EXCEPT ![p] = "closed"]
    /\ calls' = [calls EXCEPT ![p] = <<>>]
    /\ failedAt' = [failedAt EXCEPT ![p] = "none"]
    /\ start' = [start EXCEPT ![p] = NoStart]
    /\ rel' = [rel EXCEPT ![p] = 1]
    /\ Goto(p, "idle")

\* identifiers the records service has not handed out yet
UsedIds == {d.id : d \in dRecords} \cup {pDraft[q].id : q \in Procs}
FreshId == CHOOSE i \in 1..(Cardinality(UsedIds) + 1) : i \notin UsedIds

UsedParents == {d.parent : d \in dRecords}
                  \cup {pDraft[q].parent : q \in {q \in Procs : pDraft[q] # NoDraft}}
FreshParent == CHOOSE i \in 1..(Cardinality(UsedParents) + 1) : i \notin UsedParents

\* Repository.latest_release(ReleaseStatus.PUBLISHED): newest such release
PublishedReleases(p) == {r \in Releases : ViewStatus(p)[r] = PUBLISHED}
latest_release(p) ==
    CHOOSE r \in PublishedReleases(p) : \A q \in PublishedReleases(p) : q <= r

\* is_first_release that asks whether this release has a record
is_first_release_OwnRecord(p) == ViewRecordId(p)[rel[p]] = NoRecordId

\* GitHubRelease.is_first_release()
is_first_release(p) == PublishedReleases(p) = {}

\* ---- process_release / publish, step by step ----

\* process_release that starts only when the release is not PROCESSING
ProcessRelease_Exclusive(p, r) ==
    /\ pc[p] = "idle"
    /\ dStatus[r] # PROCESSING
    /\ attempts < MaxAttempts
    /\ attempts' = attempts + 1
    /\ relinked' = IF dRecordId[r] # NoRecordId THEN relinked \cup {r}
                                               ELSE relinked
    /\ rel' = [rel EXCEPT ![p] = r]
    /\ pStatus' = [pStatus EXCEPT ![p] = PROCESSING]
    /\ start' = [start EXCEPT ![p] = [status |-> dStatus,
                                      record_id |-> dRecordId,
                                      records |-> dRecords]]
    /\ calls' = [calls EXCEPT ![p] = <<>>]
    /\ failedAt' = [failedAt EXCEPT ![p] = "none"]
    /\ outcome' = [kind |-> "none"]
    /\ ex' = [ex EXCEPT ![p] = NoError]
    /\ Goto(p, "commit_processing")
    /\ UNCHANGED <<durable, pRecordId, pDraft, locals, readers>>

\* lines 142-150 and 80-81: process_release() -> publish() ->
\* self.release_processing().  Nothing in the code looks at the current
\* status of the release first.
ProcessRelease(p, r) ==
    /\ pc[p] = "idle"
    /\ attempts < MaxAttempts
    /\ attempts' = attempts + 1
    /\ relinked' = IF dRecordId[r] # NoRecordId THEN relinked \cup {r}
                                               ELSE relinked
    /\ rel' = [rel EXCEPT ![p] = r]
    /\ pStatus' = [pStatus EXCEPT ![p] = PROCESSING]
    /\ start' = [start EXCEPT ![p] = [status |-> dStatus,
                                      record_id |-> dRecordId,
                                      records |-> dRecords]]
    /\ calls' = [calls EXCEPT ![p] = <<>>]
    /\ failedAt' = [failedAt EXCEPT ![p] = "none"]
    /\ outcome' = [kind |-> "none"]
    /\ ex' = [ex EXCEPT ![p] = NoError]
    /\ Goto(p, "commit_processing")
    /\ UNCHANGED <<durable, pRecordId, pDraft, locals, readers>>

\* CommitProcessing without the commit: PROCESSING stays pending in the
\* session the unit of work is built on
CommitProcessing_Deferred(p) ==
    /\ pc[p] = "commit_processing"
    /\ Goto(p, "metadata")
    /\ UNCHANGED <<durable, session, rel, locals, ex, calls, history, readers>>

\* line 83: db.session.commit() of the PROCESSING status; line 87 then
\* opens the UnitOfWork on the same session
CommitProcessing(p) ==
    /\ pc[p] = "commit_processing"
    /\ SessionCommit(p)
    /\ Goto(p, "metadata")
    /\ UNCHANGED <<rel, locals, ex, calls, history, readers>>

\* lines 88-92: data = {"metadata": self.metadata, "access": ..., "files": ...}
Metadata(p) ==
    /\ pc[p] = "metadata"
    /\ Called(p, "metadata")
    /\ \/ /\ Goto(p, "is_first_release")
          /\ UNCHANGED <<ex, failedAt>>
       \/ Raises(p)
    /\ UNCHANGED <<durable, session, rel, locals, outcome, start, attempts,
                   relinked, readers>>

\* IsFirstRelease that takes the first-release arm whatever the repository
IsFirstRelease_AlwaysFirst(p) ==
    /\ pc[p] = "is_first_release"
    /\ branch' = [branch EXCEPT ![p] = "first"]
    /\ Goto(p, "create")
    /\ UNCHANGED <<durable, session, rel, recid, stream, record, ex, calls,
                   history, readers>>

\* line 94: if self.is_first_release()
IsFirstRelease(p) ==
    /\ pc[p] = "is_first_release"
    /\ IF is_first_release(p)
          THEN /\ branch' = [branch EXCEPT ![p] = "first"]
               /\ Goto(p, "create")
          ELSE /\ branch' = [branch EXCEPT ![p] = "version"]
               /\ Goto(p, "latest_release")
    /\ UNCHANGED <<durable, session, rel, recid, stream, record, ex, calls,
                   history, readers>>

\* NewDraft with the service's default (restricted) access
NewDraft_Restricted(p) ==
    [id |-> FreshId, parent |-> FreshParent, files |-> {},
     access |-> [record |-> "restricted", files |-> "restricted"],
     metadata |-> rel[p], published |-> FALSE]

\* the draft current_rdm_records_service.create(identity, data) enrolls
NewDraft(p) ==
    [id |-> FreshId, parent |-> FreshParent, files |-> {},
     access |-> [record |-> "public", files |-> "public"],
     metadata |-> rel[p], published |-> FALSE]

\* Create that goes on to init_files without the validation of the asset
Create_SkipsValidation(p) ==
    /\ pc[p] = "create"
    /\ Called(p, "create")
    /\ \/ /\ pDraft' = [pDraft EXCEPT ![p] = NewDraft(p)]
          /\ Goto(p, "init_files")
          /\ UNCHANGED <<ex, failedAt>>
       \/ /\ Raises(p)
          /\ UNCHANGED pDraft
    /\ UNCHANGED <<durable, pStatus, pRecordId, rel, locals, outcome, start,
                   attempts, relinked, readers>>

\* lines 95-97: draft = current_rdm_records_service.create(..., uow=uow)
Create(p) ==
    /\ pc[p] = "create"
    /\ Called(p, "create")
    /\ \/ /\ pDraft' = [pDraft EXCEPT ![p] = NewDraft(p)]
          /\ Goto(p, "test_zipball")
          /\ UNCHANGED <<ex, failedAt>>
       \/ /\ Raises(p)
          /\ UNCHANGED pDraft
    /\ UNCHANGED <<durable, pStatus, pRecordId, rel, locals, outcome, start,
                   attempts, relinked, readers>>

\* lines 101-105: latest_release(PUBLISHED).record_id and
\* retrieve_recid_by_uuid(); no release is PUBLISHED any more ->
\* AttributeError on None
LatestRelease(p) ==
    /\ pc[p] = "latest_release"
    /\ Called(p, "latest_release")
    /\ IF PublishedReleases(p) = {}
          THEN /\ Raises(p)
               /\ UNCHANGED recid
          ELSE \/ /\ recid' = [recid EXCEPT ![p] =
                                   ViewRecordId(p)[latest_release(p)]]
                  /\ Goto(p, "new_version")
                  /\ UNCHANGED <<ex, failedAt>>
               \/ /\ Raises(p)
                  /\ UNCHANGED recid
    /\ UNCHANGED <<durable, session, rel, branch, stream, record, outcome,
                   start, attempts, relinked, readers>>

\* the draft current_rdm_records_service.new_version(identity, pid_value)
\* enrolls: next version of the lineage of record id, carrying that
\* record's metadata and access, and no files
NewVersionDraft(p, id) ==
    LET prev == CHOOSE d \in ViewRecords(p) : d.id = id
    IN  [id |-> FreshId, parent |-> prev.parent, files |-> {},
         access |-> prev.access, metadata |-> prev.metadata,
         published |-> FALSE]

\* lines 108-110: new_version_draft = ...new_version(..., recid.pid_value)
NewVersion(p) ==
    /\ pc[p] = "new_version"
    /\ Called(p, "new_version")
    /\ \/ /\ \E d \in ViewRecords(p) : d.id = recid[p] /\ d.published
          /\ pDraft' = [pDraft EXCEPT ![p] = NewVersionDraft(p, recid[p])]
          /\ Goto(p, "test_zipball")
          /\ UNCHANGED <<ex, failedAt>>
       \/ /\ Raises(p)
          /\ UNCHANGED pDraft
    /\ UNCHANGED <<durable, pStatus, pRecordId, rel, locals, outcome, start,
                   attempts, relinked, readers>>

\* line 47: self.test_zipball()
TestZipball(p) ==
    /\ pc[p] = "test_zipball"
    /\ Called(p, "test_zipball")
    /\ \/ /\ Goto(p, "init_files")
          /\ UNCHANGED <<ex, failedAt>>
       \/ Raises(p)
    /\ UNCHANGED <<durable, session, rel, locals, outcome, start, attempts,
                   relinked, readers>>

\* the draft with the state of file key set
WithFile(d, key, state) ==
    [d EXCEPT !.files = {f \in @ : f.key # key}
                            \cup {[key |-> key, state |-> state]}]

\* lines 49-54: draft_file_service.init_files(..., [{"key": name}], uow=uow)
InitFiles(p) ==
    /\ pc[p] = "init_files"
    /\ Called(p, "init_files")
    /\ \/ /\ pDraft' = [pDraft EXCEPT ![p] =
                           WithFile(@, release_file_name(rel[p]), "initialized")]
          /\ Goto(p, "fetch_zipball_file")
          /\ UNCHANGED <<ex, failedAt>>
       \/ /\ Raises(p)
          /\ UNCHANGED pDraft
    /\ UNCHANGED <<durable, pStatus, pRecordId, rel, locals, outcome, start,
                   attempts, relinked, readers>>

\* line 56: with self.fetch_zipball_file() as file_stream
FetchZipballFile(p) ==
    /\ pc[p] = "fetch_zipball_file"
    /\ Called(p, "fetch_zipball_file")
    /\ \/ /\ stream' = [stream EXCEPT ![p] = "open"]
          /\ Goto(p, "set_file_content")
          /\ UNCHANGED <<ex, failedAt>>
       \/ /\ Raises(p)
          /\ UNCHANGED stream
    /\ UNCHANGED <<durable, session, rel, branch, recid, record, outcome,
                   start, attempts, relinked, readers>>

\* SetFileContent that goes on to commit_file in both branches
SetFileContent_SkipsUpdate(p) ==
    /\ pc[p] = "set_file_content"
    /\ Called(p, "set_file_content")
    /\ stream' = [stream EXCEPT ![p] = "closed"]
    /\ \/ /\ pDraft' = [pDraft EXCEPT ![p] =
                           WithFile(@, release_file_name(rel[p]), "uploaded")]
          /\ Goto(p, "commit_file")
          /\ UNCHANGED <<ex, failedAt>>
       \/ /\ Raises(p)
          /\ UNCHANGED pDraft
    /\ UNCHANGED <<durable, pStatus, pRecordId, rel, branch, recid, record,
                   outcome, start, attempts, relinked, readers>>

\* SetFileContent that closes the stream only when the upload succeeded
SetFileContent_LeaksOnError(p) ==
    /\ pc[p] = "set_file_content"
    /\ Called(p, "set_file_content")
    /\ \/ /\ pDraft' = [pDraft EXCEPT ![p] =
                           WithFile(@, release_file_name(rel[p]), "uploaded")]
          /\ stream' = [stream EXCEPT ![p] = "closed"]
          /\ Goto(p, IF branch[p] = "first" THEN "commit_file"
                                            ELSE "update_draft")
          /\ UNCHANGED <<ex, failedAt>>
       \/ /\ Raises(p)
          /\ UNCHANGED <<pDraft, stream>>
    /\ UNCHANGED <<durable, pStatus, pRecordId, rel, branch, recid, record,
                   outcome, start, attempts, relinked, readers>>

\* lines 57-63: draft_file_service.set_file_content(..., file_stream) and
\* the exit of the with block, which closes the stream either way
SetFileContent(p) ==
    /\ pc[p] = "set_file_content"
    /\ Called(p, "set_file_content")
    /\ stream' = [stream EXCEPT ![p] = "closed"]
    /\ \/ /\ pDraft' = [pDraft EXCEPT ![p] =
                           WithFile(@, release_file_name(rel[p]), "uploaded")]
          /\ Goto(p, IF branch[p] = "first" THEN "commit_file"
                                            ELSE "update_draft")
          /\ UNCHANGED <<ex, failedAt>>
       \/ /\ Raises(p)
          /\ UNCHANGED pDraft
    /\ UNCHANGED <<durable, pStatus, pRecordId, rel, branch, recid, record,
                   outcome, start, attempts, relinked, readers>>

\* lines 116-118: draft = ...update_draft(identity, new_version_draft.id, data)
UpdateDraft(p) ==
    /\ pc[p] = "update_draft"
    /\ Called(p, "update_draft")
    /\ \/ /\ pDraft' = [pDraft EXCEPT ![p] =
                           [@ EXCEPT !.metadata = rel[p],
                                     !.access = [record |-> "public",
                                                 files |-> "public"]]]
          /\ Goto(p, "commit_file")
          /\ UNCHANGED <<ex, failedAt>>
       \/ /\ Raises(p)
          /\ UNCHANGED pDraft
    /\ UNCHANGED <<durable, pStatus, pRecordId, rel, locals, outcome, start,
                   attempts, relinked, readers>>

\* CommitFile that leaves the file as uploaded
CommitFile_NotCommitted(p) ==
    /\ pc[p] = "commit_file"
    /\ Called(p, "commit_file")
    /\ \/ /\ Goto(p, "publish")
          /\ UNCHANGED <<ex, failedAt>>
       \/ Raises(p)
    /\ UNCHANGED <<durable, session, rel, locals, outcome, start, attempts,
                   relinked, readers>>

\* lines 120-122: draft_file_service.commit_file(..., name, uow=uow)
CommitFile(p) ==
    /\ pc[p] = "commit_file"
    /\ Called(p, "commit_file")
    /\ \/ /\ [key |-> release_file_name(rel[p]), state |-> "uploaded"]
                 \in pDraft[p].files
          /\ pDraft' = [pDraft EXCEPT ![p] =
                           WithFile(@, release_file_name(rel[p]), "committed")]
          /\ Goto(p, "publish")
          /\ UNCHANGED <<ex, failedAt>>
       \/ /\ Raises(p)
          /\ UNCHANGED pDraft
    /\ UNCHANGED <<durable, pStatus, pRecordId, rel, locals, outcome, start,
                   attempts, relinked, readers>>

\* lines 124-126: record = current_rdm_records_service.publish(..., draft.id)
Publish(p) ==
    /\ pc[p] = "publish"
    /\ Called(p, "publish")
    /\ \/ /\ pDraft' = [pDraft EXCEPT ![p] = [@ EXCEPT !.published = TRUE]]
          /\ record' = [record EXCEPT ![p] = pDraft[p].id]
          /\ Goto(p, "set_record_id")
          /\ UNCHANGED <<ex, failedAt>>
       \/ /\ Raises(p)
          /\ UNCHANGED <<pDraft, record>>
    /\ UNCHANGED <<durable, pStatus, pRecordId, rel, branch, recid, stream,
                   outcome, start, attempts, relinked, readers>>

\* SetRecordId that links the release to the latest published record
SetRecordId_Latest(p) ==
    /\ pc[p] = "set_record_id"
    /\ pRecordId' = [pRecordId EXCEPT ![p] =
                        IF branch[p] = "version" THEN recid[p] ELSE record[p]]
    /\ Goto(p, "release_published")
    /\ UNCHANGED <<durable, pStatus, pDraft, rel, locals, ex, calls, history, readers>>

\* line 129: self.release_object.record_id = record._record.model.id
SetRecordId(p) ==
    /\ pc[p] = "set_record_id"
    /\ pRecordId' = [pRecordId EXCEPT ![p] = record[p]]
    /\ Goto(p, "release_published")
    /\ UNCHANGED <<durable, pStatus, pDraft, rel, locals, ex, calls, history, readers>>

\* ReleasePublished followed by a commit of its own
ReleasePublished_Committed(p) ==
    /\ pc[p] = "release_published"
    /\ dStatus' = [dStatus EXCEPT ![rel[p]] = PUBLISHED]
    /\ dRecordId' = ViewRecordId(p)
    /\ dRecords' = ViewRecords(p)
    /\ pRecordId' = [pRecordId EXCEPT ![p] = NoChange]
    /\ pDraft' = [pDraft EXCEPT ![p] = NoDraft]
    /\ Goto(p, "uow_commit")
    /\ UNCHANGED <<pStatus, rel, locals, ex, calls, history, readers>>

\* line 130: self.release_published()
ReleasePublished(p) ==
    /\ pc[p] = "release_published"
    /\ pStatus' = [pStatus EXCEPT ![p] = PUBLISHED]
    /\ Goto(p, "uow_commit")
    /\ UNCHANGED <<durable, pRecordId, pDraft, rel, locals, ex, calls, history, readers>>

\* UowCommit that raises after the session was committed
UowCommit_RaisesAfterCommit(p) ==
    /\ pc[p] = "uow_commit"
    /\ Called(p, "uow_commit")
    /\ SessionCommit(p)
    /\ \/ /\ Goto(p, "return")
          /\ UNCHANGED <<ex, failedAt>>
       \/ Raises(p)
    /\ UNCHANGED <<rel, locals, outcome, start, attempts, relinked, readers>>

\* line 133: uow.commit(): commits the session or raises leaving it as it was
UowCommit(p) ==
    /\ pc[p] = "uow_commit"
    /\ Called(p, "uow_commit")
    /\ \/ /\ SessionCommit(p)
          /\ Goto(p, "return")
          /\ UNCHANGED <<ex, failedAt>>
       \/ /\ Raises(p)
          /\ UNCHANGED <<durable, session>>
    /\ UNCHANGED <<rel, locals, outcome, start, attempts, relinked, readers>>

\* lines 134 and 150-151: return record
Return(p) ==
    /\ pc[p] = "return"
    /\ outcome' = [kind |-> "returned", release |-> rel[p],
                   record |-> record[p]]
    /\ Ends(p)
    /\ UNCHANGED <<durable, session, attempts, relinked, readers>>

\* UowExit without the rollback of the session
UowExit_NoRollback(p) ==
    /\ pc[p] = "uow_exit"
    /\ Goto(p, "release_failed")
    /\ UNCHANGED <<durable, session, rel, locals, ex, calls, history, readers>>

\* line 87, leaving the with block on an exception: the UnitOfWork rolls
\* the session back; the except clause of line 135 is entered
UowExit(p) ==
    /\ pc[p] = "uow_exit"
    /\ SessionRollback(p)
    /\ Goto(p, "release_failed")
    /\ UNCHANGED <<rel, locals, ex, calls, history, readers>>

\* line 137: self.release_failed()
ReleaseFailed(p) ==
    /\ pc[p] = "release_failed"
    /\ pStatus' = [pStatus EXCEPT ![p] = FAILED]
    /\ Goto(p, "commit_failed")
    /\ UNCHANGED <<durable, pRecordId, pDraft, rel, locals, ex, calls, history, readers>>

\* CommitFailed without the commit
CommitFailed_Deferred(p) ==
    /\ pc[p] = "commit_failed"
    /\ Goto(p, "raise")
    /\ UNCHANGED <<durable, session, rel, locals, ex, calls, history, readers>>

\* line 139: db.session.commit() of the FAILED status
CommitFailed(p) ==
    /\ pc[p] = "commit_failed"
    /\ SessionCommit(p)
    /\ Goto(p, "raise")
    /\ UNCHANGED <<rel, locals, ex, calls, history, readers>>

\* Raise with the exception wrapped in a new one
Raise_Wrapped(p) ==
    /\ pc[p] = "raise"
    /\ outcome' = [kind |-> "raised", release |-> rel[p],
                   error |-> <<"Wrapped", ex[p]>>]
    /\ Ends(p)
    /\ UNCHANGED <<durable, session, attempts, relinked, readers>>

\* lines 140 and 152-156: raise ex, logged and raised again by process_release
Raise(p) ==
    /\ pc[p] = "raise"
    /\ outcome' = [kind |-> "raised", release |-> rel[p], error |-> ex[p]]
    /\ Ends(p)
    /\ UNCHANGED <<durable, session, attempts, relinked, readers>>

\* the worker process dies in the middle of an attempt: its session and
\* its locals are lost, the committed rows stay
Crash(p) ==
    /\ pc[p] # "idle"
    /\ SessionRollback(p)
    /\ outcome' = [kind |-> "crashed", release |-> rel[p], at |-> pc[p]]
    /\ Ends(p)
    /\ UNCHANGED <<attempts, relinked, readers>>

\* the steps of an attempt after its start
Step(p) ==
    \/ CommitProcessing(p)
    \/ Metadata(p)
    \/ IsFirstRelease(p)
    \/ Create(p)
    \/ LatestRelease(p)
    \/ NewVersion(p)
    \/ TestZipball(p)
    \/ InitFiles(p)
    \/ FetchZipballFile(p)
    \/ SetFileContent(p)
    \/ UpdateDraft(p)
    \/ CommitFile(p)
    \/ Publish(p)
    \/ SetRecordId(p)
    \/ ReleasePublished(p)
    \/ UowCommit(p)
    \/ Return(p)
    \/ UowExit(p)
    \/ ReleaseFailed(p)
    \/ CommitFailed(p)
    \/ Raise(p)
    \/ Crash(p)

\* no attempt is running: processing is synchronous, one attempt at a time
NoAttemptRunning == \A q \in Procs : pc[q] = "idle"

\* attempts are started one after the other, on any release, by any worker
Next ==
    \/ \E p \in Procs, r \in Releases : NoAttemptRunning /\ ProcessRelease(p, r)
    \/ \E p \in Procs : Step(p)

Spec == Init /\ [][Next]_vars

TypeOK ==
    /\ dStatus \in [Releases -> {RECEIVED, PROCESSING, PUBLISHED, FAILED}]
    /\ \A r \in Releases : dRecordId[r] \in 0..(MaxAttempts + 1)
    /\ \A p \in Procs : stream[p] \in {"closed", "open"}
    /\ attempts \in 0..MaxAttempts

\* ---- resolve_record and record_url ----

\* .utils.retrieve_recid_by_uuid: the recid persistent identifier of the
\* record with this uuid
retrieve_recid_by_uuid(uuid) ==
    [pid_type |-> "recid", pid_value |-> <<"recid", uuid>>,
     object_uuid |-> uuid]

\* current_rdm_records_service.read(system_identity, pid_value): the
\* published record with this pid, RecordDeletedException when it was
\* deleted
read(pid_value) ==
    LET found == {d \in dRecords : d.published /\ <<"recid", d.id>> = pid_value}
    IN  IF found = {}
           THEN [raised |-> <<"PIDDoesNotExistError">>, value |-> {}]
        ELSE IF \E d \in found : d.id \in deleted
           THEN [raised |-> <<"RecordDeletedException">>, value |-> {}]
        ELSE [raised |-> NoError, value |-> found]

\* resolve_record without the except clause
resolve_record_NoExcept(r) ==
    IF dRecordId[r] = NoRecordId
       THEN [calls |-> <<>>, result |-> {}, error |-> NoError]
    ELSE LET recid_ == retrieve_recid_by_uuid(dRecordId[r])
             res == read(recid_.pid_value)
         IN  [calls |-> <<"retrieve_recid_by_uuid", "read">>,
              result |-> res.value, error |-> res.raised]

\* resolve_record that looks the identifier up before testing the linkage
resolve_record_LooksUpFirst(r) ==
    LET recid_ == retrieve_recid_by_uuid(dRecordId[r])
        res == read(recid_.pid_value)
    IN  IF dRecordId[r] = NoRecordId
           THEN [calls |-> <<"retrieve_recid_by_uuid">>, result |-> {},
                 error |-> NoError]
        ELSE IF res.raised = <<"RecordDeletedException">>
           THEN [calls |-> <<"retrieve_recid_by_uuid", "read">>,
                 result |-> {}, error |-> NoError]
        ELSE [calls |-> <<"retrieve_recid_by_uuid", "read">>,
              result |-> res.value, error |-> res.raised]

\* lines 34-42: resolve_record(): the calls it makes, the record it returns
\* ({} for None) and the error it raises
resolve_record(r) ==
    IF dRecordId[r] = NoRecordId
       THEN [calls |-> <<>>, result |-> {}, error |-> NoError]
    ELSE LET recid_ == retrieve_recid_by_uuid(dRecordId[r])
             res == read(recid_.pid_value)
         IN  IF res.raised = <<"RecordDeletedException">>
                THEN [calls |-> <<"retrieve_recid_by_uuid", "read">>,
                      result |-> {}, error |-> NoError]
             ELSE [calls |-> <<"retrieve_recid_by_uuid", "read">>,
                   result |-> res.value, error |-> res.raised]

\* a caller resolves the record of release r
ResolveRecord(r) ==
    /\ reads < MaxReads
    /\ reads' = reads + 1
    /\ answer' = [op |-> "resolve_record", release |-> r,
                  record_id |-> dRecordId[r],
                  calls |-> resolve_record(r).calls,
                  result |-> resolve_record(r).result,
                  error |-> resolve_record(r).error]
    /\ UNCHANGED <<durable, session, locals, history, pc, rel, ex, calls,
                   deleted>>

\* the records service deletes a published record, leaving its tombstone
DeleteRecord(id) ==
    /\ Cardinality(deleted) < MaxDeleted
    /\ id \in {d.id : d \in dRecords} \ deleted
    /\ deleted' = deleted \cup {id}
    /\ UNCHANGED <<durable, session, locals, history, pc, rel, ex, calls,
                   reads, answer>>

\* links of the data of a record: "doi" may be missing (None) or empty
NoLink == <<>>
EmptyLink == <<"">>
self_html(id) == <<"self_html", id>>
doi(id) == <<"doi", id>>

\* Python truth value of a link
Falsy(link) == link \in {NoLink, EmptyLink}

\* lines 168-170: html_url, doi_url, return doi_url or html_url
record_url(links) ==
    LET html_url == links.self_html
        doi_url == links.doi
    IN  IF Falsy(doi_url) THEN html_url ELSE doi_url

\* a caller asks for the url of the record of release r, while the
\* configuration has DATACITE_ENABLED = enabled and the links of the record
\* have this doi entry
RecordUrl(r, enabled, doi_link) ==
    /\ resolve_record(r).result # {}
    /\ answer' = [op |-> "record_url", release |-> r,
                  DATACITE_ENABLED |-> enabled,
                  links |-> [self_html |-> self_html(dRecordId[r]),
                             doi |-> doi_link],
                  result |-> record_url([self_html |-> self_html(dRecordId[r]),
                                         doi |-> doi_link])]
    /\ UNCHANGED <<durable, session, locals, history, pc, rel, ex, calls,
                   deleted, reads>>

\* the caller is done with what the last call returned
Forget ==
    /\ answer.op # "none"
    /\ answer' = [op |-> "none"]
    /\ reads' = 0
    /\ UNCHANGED <<durable, session, locals, history, pc, rel, ex, calls,
                   deleted>>

\* attempts one at a time (all by the same worker, which one runs an
\* attempt makes no difference to the readers), records deleted at any
\* moment, and releases resolved in between the attempts: resolve_record
\* reads committed rows only, and those change at the commits of an
\* attempt only
NextReaders ==
    \/ \E r \in Releases :
          NoAttemptRunning /\ answer.op = "none" /\ ProcessRelease(1, r)
    \/ \E p \in Procs : Step(p)
    \/ \E id \in 1..(MaxAttempts + 1) : DeleteRecord(id)
    \/ \E r \in Releases : NoAttemptRunning /\ ResolveRecord(r)
    \/ Forget

SpecReaders == Init /\ [][NextReaders]_vars

\* attempts one at a time, and in between them the url of the record of a
\* release asked for, under either configuration and with any doi entry
\* in the links of the record
NextUrl ==
    \/ \E r \in Releases :
          NoAttemptRunning /\ answer.op = "none" /\ ProcessRelease(1, r)
    \/ \E p \in Procs : Step(p)
    \/ \E r \in Releases, enabled \in BOOLEAN :
          \E doi_link \in {NoLink, EmptyLink, doi(dRecordId[r])} :
              NoAttemptRunning /\ RecordUrl(r, enabled, doi_link)
    \/ Forget

SpecUrl == Init /\ [][NextUrl]_vars

\* ---- concurrent attempts ----

\* the workers whose attempts overlap: a pair, each attempt of a concurrent
\* run is started by one of them
Racers == {1, 2}

\* process_release takes no lock and tests no status before it starts
\* (lines 80-83): the workers start attempts whenever they are free, on any
\* release, and their steps interleave freely
NextConc ==
    \/ \E p \in Racers, r \in Releases :
          attempts < Cardinality(Racers) /\ ProcessRelease(p, r)
    \/ \E p \in Procs : Step(p)

SpecConc == Init /\ [][NextConc]_vars

\* ---- vocabulary of the properties ----

\* positions inside "with UnitOfWork(db.session) as uow", before its commit
UowPhase ==
    {"metadata", "is_first_release", "create", "latest_release", "new_version",
     "test_zipball", "init_files", "fetch_zipball_file", "set_file_content",
     "update_draft", "commit_file", "publish", "set_record_id",
     "release_published", "uow_commit"}

\* positions of the except clause of publish()
FailurePhase == {"uow_exit", "release_failed", "commit_failed", "raise"}

\* the durable records and linkages are what they were when the attempt began
NothingChanged(p) ==
    /\ dRecords = start[p].records
    /\ dRecordId = start[p].record_id

\* a published record of release r with its one committed file
CompleteRecordOf(d, r) ==
    /\ d.published
    /\ d.metadata = r
    /\ d.files = {[key |-> release_file_name(r), state |-> "committed"]}

\* the attempt added exactly one complete record, linked from its release
FullyPublished(p) ==
    /\ dStatus[rel[p]] = PUBLISHED
    /\ \E d \in dRecords \ start[p].records :
          /\ dRecords = start[p].records \cup {d}
          /\ d.id \notin {e.id : e \in start[p].records}
          /\ CompleteRecordOf(d, rel[p])
          /\ dRecordId = [start[p].record_id EXCEPT ![rel[p]] = d.id]

\* number of times name occurs in the calls of the attempt
NumCalls(p, name) ==
    Cardinality({i \in 1..Len(calls[p]) : calls[p][i] = name})

\* ---- C1 ----
\* C1: atomicity on failure.  When a step of the transactional phase of an
\* attempt raised, then from the rollback on and when the error is raised to
\* the caller nothing of the attempt is pending or durable: the durable
\* records, drafts, files and linkages are those from before the attempt;
\* and when the error is raised the durable status of the release is FAILED.
C1_AtomicityOnFailure ==
    \A p \in Procs :
        /\ pc[p] \in {"release_failed", "commit_failed", "raise"} =>
              /\ NothingChanged(p)
              /\ pDraft[p] = NoDraft
              /\ pRecordId[p] = NoChange
        /\ pc[p] = "raise" =>
              /\ failedAt[p] \in UowPhase
              /\ dStatus[rel[p]] = FAILED

\* the final uow.commit() of an attempt raised and the error is being
\* raised, with everything the attempt had enrolled gone
C1_Witness ==
    \E p \in Procs :
        /\ pc[p] = "raise"
        /\ failedAt[p] = "uow_commit"
        /\ NumCalls(p, "publish") = 1
        /\ dStatus[rel[p]] = FAILED

\* ---- C3 ----
\* C3: error propagation.  An attempt in which a collaborator call raised
\* error E ends, unless the worker dies, by raising that same E to the
\* caller, and at that moment the release is durably FAILED; it never ends
\* by returning a record.
C3_ErrorPropagation ==
    [][\A p \in Procs :
          (failedAt[p] # "none" /\ pc[p] # "idle" /\ pc'[p] = "idle"
             /\ outcome'.kind # "crashed")
          => /\ outcome' = [kind |-> "raised", release |-> rel[p],
                            error |-> ErrorOf(failedAt[p])]
             /\ dStatus'[rel[p]] = FAILED]_vars

\* the publish call raised, and its error reached the caller
C3_Witness ==
    /\ outcome.kind = "raised"
    /\ outcome.error = ErrorOf("publish")
    /\ dStatus[outcome.release] = FAILED

\* ---- C4 ----
\* C4: PROCESSING is committed first and on its own.  Before the commit of
\* line 83 no collaborator was called; all through the unit of work and the
\* except clause (so also after the rollback) the durable status is
\* PROCESSING; and after a crash anywhere between that commit and the end of
\* the attempt the durable status is PROCESSING.
C4_ProcessingCommittedFirst ==
    /\ \A p \in Procs :
          /\ pc[p] = "commit_processing" => calls[p] = <<>>
          /\ pc[p] \in UowPhase \cup {"uow_exit", "release_failed",
                                      "commit_failed"}
                => dStatus[rel[p]] = PROCESSING
    /\ (/\ outcome.kind = "crashed"
        /\ outcome.at \in UowPhase \cup {"uow_exit", "release_failed",
                                         "commit_failed"}
        /\ NoAttemptRunning)
       => dStatus[outcome.release] = PROCESSING

\* the worker died right after the commit of PROCESSING, before the
\* metadata was retrieved
C4_Witness ==
    /\ outcome.kind = "crashed"
    /\ outcome.at = "metadata"
    /\ NoAttemptRunning
    /\ dStatus[outcome.release] = PROCESSING

\* ---- C2 ----
\* C2 as stated: a durable record or linkage of a release is present only
\* if the release is durably PUBLISHED.
C2_PresentOnlyIfPublished ==
    \A r \in Releases :
        (dRecordId[r] # NoRecordId \/ \E d \in dRecords : d.metadata = r)
        => dStatus[r] = PUBLISHED

\* C2 (amended): no partial record is ever durable.  Every durable record
\* is published and has its committed file; a durable linkage points at
\* such a record of its release; a durably PUBLISHED release has its
\* linkage; and at every point of an attempt the durable state is either
\* what it was when the attempt began, or that plus one complete record,
\* its linkage and the status PUBLISHED, all made durable by the one commit
\* of the unit of work.  An attempt that raises ends in the first with
\* FAILED, one that returns in the second.
C2_NoPartialRecord ==
    /\ \A d \in dRecords : CompleteRecordOf(d, d.metadata)
    /\ \A r \in Releases :
          /\ dStatus[r] = PUBLISHED => dRecordId[r] # NoRecordId
          /\ dRecordId[r] # NoRecordId =>
                \E d \in dRecords : d.id = dRecordId[r] /\ d.metadata = r
    /\ \A p \in Procs :
          /\ pc[p] # "idle" => NothingChanged(p) \/ FullyPublished(p)
          /\ pc[p] \in UowPhase \cup FailurePhase => NothingChanged(p)
          /\ pc[p] = "raise" => dStatus[rel[p]] = FAILED
          /\ pc[p] = "return" => FullyPublished(p)

\* an attempt on a release that already had a record has just published a
\* second complete record
C2_Witness ==
    \E p \in Procs :
        /\ pc[p] = "return"
        /\ FullyPublished(p)
        /\ start[p].records # {}

\* ---- C5 ----
\* C5 as stated: the durable status of a release only moves forward along
\* RECEIVED, PROCESSING, (PUBLISHED | FAILED), over any number of
\* invocations.
C5_StatusOnlyForward ==
    [][\A r \in Releases :
          \/ dStatus'[r] = dStatus[r]
          \/ dStatus[r] = RECEIVED
          \/ dStatus[r] = PROCESSING /\ dStatus'[r] \in {PUBLISHED, FAILED}]_vars

\* C5 (amended): within one attempt the durable status goes to PROCESSING
\* and from PROCESSING to PUBLISHED or FAILED, never from PUBLISHED to
\* FAILED and never back to RECEIVED; but every new invocation first
\* commits PROCESSING whatever the status was, so FAILED and PUBLISHED are
\* left by a repeated invocation.
C5_StatusMonotoneWithinAttempt ==
    [][\A r \in Releases :
          \/ dStatus'[r] = dStatus[r]
          \/ /\ dStatus'[r] = PROCESSING
             /\ \E p \in Procs : pc[p] = "commit_processing" /\ rel[p] = r
          \/ /\ dStatus[r] = PROCESSING
             /\ dStatus'[r] = PUBLISHED
             /\ \E p \in Procs : pc[p] = "uow_commit" /\ rel[p] = r
          \/ /\ dStatus[r] = PROCESSING
             /\ dStatus'[r] = FAILED
             /\ \E p \in Procs : pc[p] = "commit_failed" /\ rel[p] = r]_vars

\* a release that was FAILED is processed again, is PROCESSING again and
\* has been published by the second attempt
C5_Witness ==
    \E p \in Procs :
        /\ pc[p] = "return"
        /\ start[p].status[rel[p]] = FAILED
        /\ dStatus[rel[p]] = PUBLISHED

\* ---- C6 ----
\* C6 as stated: in no state does the release show the status PUBLISHED
\* while the unit of work of the attempt is still uncommitted.
C6_PublishedOnlyAfterCommit ==
    \A p \in Procs :
        pc[p] \in UowPhase \cup {"uow_exit"}
        => ViewStatus(p)[rel[p]] # PUBLISHED

\* C6 (amended): release_published() is called after the publish call
\* succeeded and the linkage was set, but before uow.commit(): the status
\* PUBLISHED is then a pending change of the still uncommitted unit of work.
\* The durable status is never PUBLISHED while the unit of work is
\* uncommitted; it becomes PUBLISHED by uow.commit() itself, together with
\* the record and the linkage.
C6_PublishedWithCommit ==
    \A p \in Procs :
        /\ pStatus[p] = PUBLISHED =>
              /\ pc[p] \in {"uow_commit", "uow_exit"}
              /\ pDraft[p] # NoDraft
              /\ pDraft[p].published
              /\ pRecordId[p] = pDraft[p].id
        /\ pc[p] \in UowPhase \cup {"uow_exit"} => dStatus[rel[p]] # PUBLISHED
        /\ pc[p] = "return" =>
              /\ dStatus[rel[p]] = PUBLISHED
              /\ dRecordId[rel[p]] = record[p]
              /\ \E d \in dRecords : d.id = record[p] /\ d.published

\* the unit of work has just been committed: status, record and linkage
\* are durable at once
C6_Witness ==
    \E p \in Procs :
        /\ pc[p] = "return"
        /\ dStatus[rel[p]] = PUBLISHED
        /\ start[p].status[rel[p]] = RECEIVED
        /\ dRecordId[rel[p]] = record[p]

\* ---- C7 ----
\* C7 as stated: no status change is among the pending mutations of the
\* unit of work.
C7_NoStatusPendingInUow ==
    \A p \in Procs :
        pc[p] \in UowPhase \cup {"uow_exit"} => pStatus[p] = NoStatus

\* C7 (amended): the changes to PROCESSING and to FAILED are each committed
\* at once by a commit of their own, outside the unit of work and with
\* nothing else pending; the change to PUBLISHED is not: it is pending in
\* the unit of work together with the record and the linkage, and
\* uow.commit() commits it or the rollback discards it.
C7_StatusCommits ==
    \A p \in Procs :
        /\ pStatus[p] = PROCESSING =>
              pc[p] = "commit_processing" /\ pDraft[p] = NoDraft
                                          /\ pRecordId[p] = NoChange
        /\ pStatus[p] = FAILED =>
              pc[p] = "commit_failed" /\ pDraft[p] = NoDraft
                                      /\ pRecordId[p] = NoChange
        /\ pStatus[p] = PUBLISHED =>
              pc[p] \in {"uow_commit", "uow_exit"} /\ pDraft[p] # NoDraft
                                                   /\ pRecordId[p] # NoChange
        /\ pc[p] \in {"idle", "metadata", "release_failed", "raise", "return"}
              => pStatus[p] = NoStatus

\* uow.commit() raised with PUBLISHED pending: the rollback is about to
\* discard the status change with the record and the linkage
C7_Witness ==
    \E p \in Procs :
        /\ pc[p] = "uow_exit"
        /\ failedAt[p] = "uow_commit"
        /\ pStatus[p] = PUBLISHED
        /\ dStatus[rel[p]] = PROCESSING

\* ---- C8 ----
\* C8: first-release branch.  An attempt that began with no PUBLISHED
\* release in the repository and returns has called create once and
\* new_version never, has initialised, uploaded and committed one file, and
\* has made durable exactly one new record: of a lineage no record had
\* before, published, with public record and files access, with the one
\* committed file under the release's file name, linked from the release,
\* which is PUBLISHED.
C8_FirstReleaseBranch ==
    \A p \in Procs :
        (pc[p] = "return" /\ \A r \in Releases : start[p].status[r] # PUBLISHED)
        => /\ NumCalls(p, "create") = 1
           /\ NumCalls(p, "new_version") = 0
           /\ NumCalls(p, "init_files") = 1
           /\ NumCalls(p, "set_file_content") = 1
           /\ NumCalls(p, "commit_file") = 1
           /\ FullyPublished(p)
           /\ \A d \in dRecords \ start[p].records :
                 /\ d.id = record[p]
                 /\ d.parent \notin {e.parent : e \in start[p].records}
                 /\ d.access = [record |-> "public", files |-> "public"]

\* the first release of a repository without any record has been published
C8_Witness ==
    \E p \in Procs :
        /\ pc[p] = "return"
        /\ start[p].records = {}
        /\ \A r \in Releases : start[p].status[r] = RECEIVED
        /\ Cardinality(dRecords) = 1

\* ---- C9 ----
\* C9: versioning branch.  An attempt that began while another release of
\* the repository was PUBLISHED and returns has called new_version once
\* and create never, and its one new durable record is a new version of
\* the lineage P of the record the latest such release is linked to; the
\* processed release is linked to that new version.
C9_VersioningBranch ==
    \A p \in Procs :
        LET prior == {r \in Releases \ {rel[p]} : start[p].status[r] = PUBLISHED}
        IN  (pc[p] = "return" /\ prior # {})
            => LET latest == CHOOSE r \in prior : \A q \in prior : q <= r
                   old == CHOOSE d \in start[p].records :
                              d.id = start[p].record_id[latest]
               IN  /\ NumCalls(p, "new_version") = 1
                   /\ NumCalls(p, "create") = 0
                   /\ \E d \in start[p].records :
                          d.id = start[p].record_id[latest]
                   /\ \A d \in dRecords \ start[p].records :
                         /\ d.parent = old.parent
                         /\ d.id # old.id
                         /\ d.id = dRecordId[rel[p]]
                   /\ FullyPublished(p)

\* release 1 is published and release 2 has just been published as the
\* second version of the same lineage
C9_Witness ==
    \E p \in Procs :
        /\ pc[p] = "return"
        /\ rel[p] = 2
        /\ start[p].status[1] = PUBLISHED
        /\ Cardinality(dRecords) = 2
        /\ Cardinality({d.parent : d \in dRecords}) = 1

\* ---- C10 ----
\* records a release produced: those carrying its metadata
RecordsOf(r) == {d \in dRecords : d.metadata = r}

\* C10 as stated: after any sequence of invocations every release has
\* produced at most one durable record version.
C10_AtMostOneVersionPerRelease ==
    \A r \in Releases : Cardinality(RecordsOf(r)) <= 1

\* C10 (amended): every durable record version was produced by one release
\* only (record ids are unique and no two releases are linked to the same
\* version), and a release has produced at most one durable version as
\* long as processRelease was never invoked on it while it already had its
\* linkage; such a further invocation, when it succeeds, adds one more
\* version of that release and moves the linkage to it.
C10_OneToOneUnlessReprocessed ==
    /\ \A a, b \in dRecords : a.id = b.id => a = b
    /\ \A r1, r2 \in Releases :
          (r1 # r2 /\ dRecordId[r1] # NoRecordId)
          => dRecordId[r1] # dRecordId[r2]
    /\ \A r \in Releases \ relinked : Cardinality(RecordsOf(r)) <= 1
    /\ \A r \in Releases :
          Cardinality(RecordsOf(r)) > 1 => dRecordId[r] \in {d.id : d \in RecordsOf(r)}

\* both releases were published, one of them at its second attempt, and
\* each has its own single version
C10_Witness ==
    /\ relinked = {}
    /\ attempts = 3
    /\ \A r \in Releases : dStatus[r] = PUBLISHED
    /\ \A r \in Releases : Cardinality(RecordsOf(r)) = 1
    /\ dRecordId[1] # dRecordId[2]

\* ---- C11 ----
\* the positions in the calls of the attempt at which name was called
CallsOf(p, name) == {i \in 1..Len(calls[p]) : calls[p][i] = name}

\* every call of name b was preceded by a call of name a
CalledBefore(p, a, b) ==
    \A j \in CallsOf(p, b) : \E i \in CallsOf(p, a) : i < j

\* C11 as stated: test_zipball is called before every mutating call of the
\* attempt, draft create and new_version included; when it raises no
\* mutating call was made.
C11_ValidationBeforeAnyMutation ==
    \A p \in Procs :
        /\ CalledBefore(p, "test_zipball", "create")
        /\ CalledBefore(p, "test_zipball", "new_version")
        /\ CalledBefore(p, "test_zipball", "init_files")
        /\ failedAt[p] = "test_zipball" =>
              NumCalls(p, "create") + NumCalls(p, "new_version")
                 + NumCalls(p, "init_files") = 0

\* C11 (amended): test_zipball is called after the draft was requested from
\* the Record Service (create, or new_version) and before every File
\* Transfer Service call of the attempt (init_files, set_file_content,
\* commit_file).  When the asset is not fetchable the error is raised with no
\* file call made; the draft requested before is pending in the unit of
\* work and the rollback discards it, so nothing of it is durable.
C11_ValidationBeforeFileCalls ==
    \A p \in Procs :
        /\ CalledBefore(p, "test_zipball", "init_files")
        /\ CalledBefore(p, "test_zipball", "set_file_content")
        /\ CalledBefore(p, "test_zipball", "commit_file")
        /\ NumCalls(p, "test_zipball") > 0 =>
              /\ NumCalls(p, "create") + NumCalls(p, "new_version") = 1
              /\ \/ CalledBefore(p, "create", "test_zipball")
                 \/ CalledBefore(p, "new_version", "test_zipball")
        /\ failedAt[p] = "test_zipball" =>
              /\ NumCalls(p, "init_files") = 0
              /\ NumCalls(p, "set_file_content") = 0
              /\ NumCalls(p, "commit_file") = 0
              /\ NothingChanged(p)
              /\ pc[p] = "uow_exit" => pDraft[p] # NoDraft /\ pDraft[p].files = {}
              /\ pc[p] # "uow_exit" => pDraft[p] = NoDraft

\* the asset of a release was not fetchable: the error is being raised
\* after a draft was created and rolled back, with no file call made
C11_Witness ==
    \E p \in Procs :
        /\ pc[p] = "raise"
        /\ failedAt[p] = "test_zipball"
        /\ NumCalls(p, "create") = 1
        /\ NumCalls(p, "init_files") = 0
        /\ dRecords = start[p].records

\* ---- C16 ----
\* the calls of a whole attempt in the first-release branch
FirstReleaseCalls ==
    <<"metadata", "create", "test_zipball", "init_files",
      "fetch_zipball_file", "set_file_content", "commit_file", "publish",
      "uow_commit">>

\* the calls of a whole attempt in the versioning branch
VersioningCalls ==
    <<"metadata", "latest_release", "new_version", "test_zipball",
      "init_files", "fetch_zipball_file", "set_file_content", "update_draft",
      "commit_file", "publish", "uow_commit">>

IsPrefix(s, t) == Len(s) <= Len(t) /\ \A i \in 1..Len(s) : s[i] = t[i]

\* the state of the file of the release in the pending draft of worker p
PendingFileState(p) ==
    {f.state : f \in {f \in pDraft[p].files :
                          f.key = release_file_name(rel[p])}}

\* C16: step ordering.  The calls of an attempt are, in this order and each
\* at most once, (create | new_version), init_files, set_file_content,
\* update_draft in the versioning branch only, commit_file, publish,
\* uow.commit, with the linkage set between publish and uow.commit.
\* commit_file is called only on the uploaded file, publish only with the
\* file committed, and in the versioning branch the draft carries the
\* metadata of the release from update_draft on, before publish.
C16_StepOrdering ==
    \A p \in Procs :
        /\ branch[p] = "none" => IsPrefix(calls[p], <<"metadata">>)
        /\ branch[p] = "first" => IsPrefix(calls[p], FirstReleaseCalls)
        /\ branch[p] = "version" => IsPrefix(calls[p], VersioningCalls)
        /\ pc[p] = "commit_file" =>
              /\ PendingFileState(p) = {"uploaded"}
              /\ branch[p] = "version" =>
                    /\ NumCalls(p, "update_draft") = 1
                    /\ pDraft[p].metadata = rel[p]
        /\ pc[p] = "publish" =>
              /\ PendingFileState(p) = {"committed"}
              /\ pDraft[p].metadata = rel[p]
        /\ pRecordId[p] # NoChange =>
              /\ NumCalls(p, "publish") = 1
              /\ pDraft[p].published
              /\ pc[p] \in {"release_published", "uow_commit", "uow_exit"}
        /\ pc[p] = "return" =>
              calls[p] \in {FirstReleaseCalls, VersioningCalls}

\* an attempt in the versioning branch has made all its calls and returns
C16_Witness ==
    \E p \in Procs :
        /\ pc[p] = "return"
        /\ branch[p] = "version"
        /\ calls[p] = VersioningCalls

\* ---- C17 ----
\* C17: scoped asset stream.  The stream is open only between
\* fetch_zipball_file and the end of set_file_content, so only after
\* init_files succeeded; it is closed when set_file_content raised, before
\* the rollback of the unit of work and the FAILED status, and in every
\* state after an attempt.
C17_ScopedStream ==
    \A p \in Procs :
        /\ stream[p] = "open" =>
              /\ pc[p] = "set_file_content"
              /\ NumCalls(p, "init_files") = 1
              /\ NumCalls(p, "fetch_zipball_file") = 1
              /\ PendingFileState(p) = {"initialized"}
        /\ pc[p] = "set_file_content" => stream[p] = "open"
        /\ pc[p] \in FailurePhase \cup {"idle", "return"} => stream[p] = "closed"

\* set_file_content raised: the stream is closed while the draft is still
\* pending, before the rollback
C17_Witness ==
    \E p \in Procs :
        /\ pc[p] = "uow_exit"
        /\ failedAt[p] = "set_file_content"
        /\ stream[p] = "closed"
        /\ pDraft[p] # NoDraft
        /\ dStatus[rel[p]] = PROCESSING

\* ---- C18 ----
\* C18: frame of processRelease.  At every point of an attempt on a
\* release, and when it returns or raises, the durable status and linkage
\* of every other release are what they were when the attempt began, and
\* every record durable then is still durable, unchanged.
C18_Frame ==
    \A p \in Procs :
        pc[p] # "idle" =>
            /\ \A r \in Releases \ {rel[p]} :
                  /\ dStatus[r] = start[p].status[r]
                  /\ dRecordId[r] = start[p].record_id[r]
            /\ start[p].records \subseteq dRecords
            /\ \A d \in dRecords \ start[p].records :
                  d.id \notin {e.id : e \in start[p].records}

\* release 2 has been published as a new version while release 1 is still
\* PUBLISHED and linked to its own record, which is still there
C18_Witness ==
    \E p \in Procs :
        /\ pc[p] = "return"
        /\ rel[p] = 2
        /\ dStatus[2] = PUBLISHED
        /\ dStatus[1] = PUBLISHED
        /\ dRecordId[1] # dRecordId[2]
        /\ \E d \in start[p].records : d.id = dRecordId[1] /\ d \in dRecords

\* ---- C19 ----
\* the releases that are durably PUBLISHED
DurablyPublished == {r \in Releases : dStatus[r] = PUBLISHED}

\* C19: single lineage per repository under sequential use.  As long as no
\* release is processed again after it produced a record, whatever attempts
\* raised or died in between, the records the PUBLISHED releases are linked
\* to are versions of one lineage, each PUBLISHED release is linked to a
\* version of its own, and there are as many durable versions as PUBLISHED
\* releases.
C19_SingleLineage ==
    relinked = {} =>
        /\ Cardinality({d.parent : d \in dRecords}) <= 1
        /\ \A r \in DurablyPublished :
              \E d \in dRecords : d.id = dRecordId[r]
        /\ Cardinality({dRecordId[r] : r \in DurablyPublished})
              = Cardinality(DurablyPublished)
        /\ Cardinality(dRecords) = Cardinality(DurablyPublished)

\* an attempt raised, and then both releases were published, as two
\* versions of one lineage
C19_Witness ==
    /\ relinked = {}
    /\ attempts > Cardinality(Releases)
    /\ NoAttemptRunning
    /\ DurablyPublished = Releases
    /\ Cardinality(dRecords) = Cardinality(Releases)
    /\ Cardinality({d.parent : d \in dRecords}) = 1
    /\ outcome.kind = "returned"

\* ---- C12 ----
\* C12: tombstone resolution.  A resolve_record call on a release with a
\* linkage returns None and raises nothing when the record behind the
\* linkage is deleted, and returns that record when it is not.
C12_TombstoneResolution ==
    [][\A r \in Releases :
          (reads' = reads + 1 /\ answer'.release = r
             /\ dRecordId[r] # NoRecordId)
          => /\ answer'.error = NoError
             /\ answer'.calls = <<"retrieve_recid_by_uuid", "read">>
             /\ IF dRecordId[r] \in deleted
                   THEN answer'.result = {}
                   ELSE answer'.result = {d \in dRecords : d.id = dRecordId[r]}
                        /\ answer'.result # {}]_vars

\* the record of a published release was deleted, and resolve_record read
\* it and returned None
C12_Witness ==
    /\ answer.op = "resolve_record"
    /\ answer.record_id \in deleted
    /\ answer.calls = <<"retrieve_recid_by_uuid", "read">>
    /\ answer.result = {}
    /\ answer.error = NoError

\* ---- C13 ----
\* C13: a resolve_record call on a release without linkage returns None,
\* looks no identifier up, reads no record and changes nothing, also when
\* it is called again.
C13_NoLinkageNoCall ==
    [][(reads' = reads + 1 /\ dRecordId[answer'.release] = NoRecordId)
       => /\ answer'.result = {}
          /\ answer'.calls = <<>>
          /\ answer'.error = NoError
          /\ UNCHANGED <<durable, session, locals, history, pc, rel, ex, calls,
                         deleted>>]_vars

\* resolve_record was called twice in a row, the second time on a release
\* without linkage
C13_Witness ==
    /\ reads = 2
    /\ answer.op = "resolve_record"
    /\ answer.record_id = NoRecordId
    /\ answer.result = {}
    /\ answer.calls = <<>>

\* ---- C15 ----
\* C15: record_url is the doi link exactly when DATACITE_ENABLED is set and
\* the links of the record have a doi link, and the self_html link in every
\* other case.
C15_DoiOnlyWhenEnabled ==
    answer.op = "record_url" =>
        answer.result = IF answer.DATACITE_ENABLED /\ ~Falsy(answer.links.doi)
                           THEN answer.links.doi
                           ELSE answer.links.self_html

\* ---- C14 ----
\* C14: PROCESSING is not a mutex.  A free worker can start an attempt on
\* any release, whatever the status of the release and whatever the other
\* workers are doing with it, and a running attempt never waits: each of
\* its steps can be taken at once.
C14_NoMutualExclusion ==
    \A p \in Racers :
        /\ (pc[p] = "idle" /\ attempts < Cardinality(Racers))
              => \A r \in Releases : ENABLED ProcessRelease(p, r)
        /\ pc[p] # "idle" => ENABLED Step(p)

\* two attempts on the same release are both past the commit of PROCESSING
\* and both hold a draft
C14_Witness ==
    \E p \in Racers, q \in Racers :
        /\ p # q
        /\ rel[p] = rel[q]
        /\ dStatus[rel[p]] = PROCESSING
        /\ pc[p] \in UowPhase /\ pc[q] \in UowPhase
        /\ pDraft[p] # NoDraft /\ pDraft[q] # NoDraft
        /\ pDraft[p].id # pDraft[q].id

\* ---- C20 ----
\* C20: attempts on different releases that overlap leave what attempts one
\* after the other leave; in particular, when no release was processed again
\* after it produced a record, the records of the PUBLISHED releases are
\* versions of one lineage.
C20_ConcurrentSingleLineage ==
    (relinked = {} /\ NoAttemptRunning /\ DurablyPublished = Releases)
        => Cardinality({d.parent : d \in dRecords}) <= 1

====
